---- MODULE Spec2Model ----
(***************************************************************************)
(* A model of app.py, the NIFTY 50 dashboard: one Streamlit script that is *)
(* re-executed from top to bottom on every user interaction.               *)
(*                                                                         *)
(* Calendar dates and pandas Timestamps are day ordinals (the CSV format   *)
(* '%d-%b-%Y' carries no time of day, and pd.to_datetime of a date is that *)
(* day at midnight, so every comparison of the script is one of days).     *)
(* Prices are positive integers; a mean or a percentage is the exact       *)
(* fraction num/den, NaN is a value of its own.  Of the columns Open,      *)
(* High, Low, Shares Traded and Turnover only the presence is modelled:    *)
(* the script only hands their values to the charts.  The numbers Prophet  *)
(* predicts (yhat and its bounds) are not modelled, the dates of its       *)
(* tables are.                                                             *)
(***************************************************************************)
EXTENDS Integers, Sequences, FiniteSets, Bags, TLC

VARIABLES csv, cache, df, date_range, start_date, end_date, filtered_df,
          expanded_card, forecast_days, event, outcome, model, forecast

vars == <<csv, cache, df, date_range, start_date, end_date, filtered_df,
          expanded_card, forecast_days, event, outcome, model, forecast>>

(***************************************************************************)
(* Bounds of the model.                                                    *)
(***************************************************************************)
\* last calendar day of a session's file
MaxDate == 3
\* closes are 1..CloseMod
CloseMod == 5
\* price patterns of the files
MaxSeed == 2

(***************************************************************************)
(* Program constants.                                                      *)
(***************************************************************************)
MA20Window == 20
MA50Window == 50
MA200Window == 200
MinHorizon == 7
MaxHorizon == 90
DefaultHorizon == 30

Windows == {MA20Window, MA50Window, MA200Window}

RequiredColumns == {"Date", "Open", "High", "Low", "Close", "Shares Traded", "Turnover"}

Cards == {"price", "volume", "returns", "forecast"}

(***************************************************************************)
(* Values.                                                                 *)
(***************************************************************************)
\* The value of an expression, computed once.
Value(S) == CHOOSE v \in S : TRUE

\* A sequence, spelled out.
AsTuple(f) == f \o <<>>

NaN == [nan |-> TRUE, num |-> 0, den |-> 1]

Frac(n, d) == [nan |-> FALSE, num |-> n, den |-> d]

NoError == [exc |-> "", line |-> 0]

Raised(e, l) == [exc |-> e, line |-> l]

Min(S) == CHOOSE x \in S : \A y \in S : x <= y

Max(S) == CHOOSE x \in S : \A y \in S : x >= y

Column(rows, f) == AsTuple([i \in 1..Len(rows) |-> rows[i][f]])

DatesOf(rows) == {rows[i].Date : i \in 1..Len(rows)}

(***************************************************************************)
(* load_data.                                                              *)
(***************************************************************************)
\* df.columns.str.strip(): a label is a name with or without padding
strip(labels) == {l.name : l \in labels}

\* x[lo] + ... + x[hi], for positive x
Sum(x, lo, hi) == IF lo > hi THEN 0 ELSE BagCardinality([j \in lo..hi |-> x[j]])

\* df.sort_values('Date'): row i goes to the place given by the number of rows
\* that come before it (an earlier date, or the same date higher up)
rank(rows, i) ==
  1 + Cardinality({j \in 1..Len(rows) :
                     \/ rows[j].Date < rows[i].Date
                     \/ rows[j].Date = rows[i].Date /\ j < i})

sort_values(rows) ==
  Value({AsTuple([k \in 1..Len(rows) |-> rows[CHOOSE i \in 1..Len(rows) : rk[i] = k]]) :
         rk \in {AsTuple([i \in 1..Len(rows) |-> rank(rows, i)])}})

\* rolling(window=w, min_periods=1)
rolling_mean_min_periods_1(x, w) ==
  [i \in 1..Len(x) |->
     LET added == Sum(x, 1, i)
         dropped == Sum(x, 1, i - w)
         nobs == IF i > w THEN w ELSE i
     IN IF nobs >= 1 THEN Frac(added - dropped, nobs) ELSE NaN]

\* Series.rolling(window=w).mean(), min_periods = w: pandas keeps a running
\* sum to which item i is added and from which item i-w is dropped once the
\* window is full, counts the items in it (nobs), and gives sum/nobs when
\* nobs >= min_periods, NaN otherwise.
rolling_mean(x, w) ==
  [i \in 1..Len(x) |->
     LET added == Sum(x, 1, i)
         dropped == Sum(x, 1, i - w)
         nobs == IF i > w THEN w ELSE i
     IN IF nobs >= w THEN Frac(added - dropped, nobs) ELSE NaN]

\* Series.pct_change() * 100
pct_change_100(x) ==
  [i \in 1..Len(x) |-> IF i = 1 THEN NaN ELSE Frac((x[i] - x[i - 1]) * 100, x[i - 1])]

\* lines 38-43: the four derived columns
enrich(rows) ==
  Value({AsTuple([i \in 1..Len(rows) |->
                    [Date |-> rows[i].Date, Close |-> rows[i].Close,
                     MA20 |-> ma20[i], MA50 |-> ma50[i], MA200 |-> ma200[i],
                     Daily_Return |-> ret[i]]]) :
         ma20 \in {AsTuple(rolling_mean(Column(rows, "Close"), MA20Window))},
         ma50 \in {AsTuple(rolling_mean(Column(rows, "Close"), MA50Window))},
         ma200 \in {AsTuple(rolling_mean(Column(rows, "Close"), MA200Window))},
         ret \in {AsTuple(pct_change_100(Column(rows, "Close")))}})

\* the body of load_data: the table it returns or the exception it raises
load_data(c) ==
  LET cols == strip(c.columns)
  IN IF "Date" \notin cols THEN [error |-> Raised("KeyError", 34), table |-> <<>>]
     ELSE IF "Close" \notin cols THEN [error |-> Raised("KeyError", 38), table |-> <<>>]
     ELSE Value({[error |-> NoError,
                  table |-> <<[columns |-> cols \cup {"MA20", "MA50", "MA200", "Daily_Return"},
                               rows |-> enrich(sorted)]>>] :
                 sorted \in {sort_values(c.rows)}})

\* @st.cache_data: the stored table on a hit; on a miss the function runs and
\* its result is stored, unless it raised
st_cache_data(memo, c) ==
  IF memo # <<>> THEN [error |-> NoError, table |-> memo, memo |-> memo]
  ELSE Value({[error |-> r.error, table |-> r.table, memo |-> r.table] :
              r \in {load_data(c)}})

(***************************************************************************)
(* The sidebar's date widget and the range filter.                         *)
(***************************************************************************)
\* what st.date_input returns: a bare date or a tuple of one or two dates
BareDate(d) == [kind |-> "date", dates |-> <<d>>]

DateTuple(ds) == [kind |-> "tuple", dates |-> ds]

default_dates(t) == DateTuple(<<Min(DatesOf(t.rows)), Max(DatesOf(t.rows))>>)

\* every value the widget can hand back between min_value and max_value
WidgetValues(t) ==
  LET days == Min(DatesOf(t.rows))..Max(DatesOf(t.rows))
  IN {BareDate(d) : d \in days} \cup {DateTuple(<<d>>) : d \in days}
       \cup {DateTuple(<<a, b>>) : a \in days, b \in days}

start_date_of(v) == v.dates[1]

\* date_range[0] taken for the end as well
end_date_of_first(v) == v.dates[1]

end_date_of(v) == IF v.kind = "tuple" THEN v.dates[Len(v.dates)] ELSE v.dates[1]

\* an end date that is left out
mask_open_end(r, s, e) == r.Date >= s /\ r.Date < e

mask(r, s, e) == r.Date >= s /\ r.Date <= e

\* df = df.loc[mask]: the filter bound to the name of the table
loc_mask_rebinds_df(t, s, e) ==
  [df |-> [t EXCEPT !.rows = SelectSeq(t.rows, LAMBDA r : mask(r, s, e))],
   filtered_df |-> SelectSeq(t.rows, LAMBDA r : mask(r, s, e))]

\* filtered_df = df.loc[mask]: the names df and filtered_df after the statement
loc_mask(t, s, e) ==
  [df |-> t, filtered_df |-> SelectSeq(t.rows, LAMBDA r : mask(r, s, e))]

(***************************************************************************)
(* Prophet, as the forecast view uses it.                                  *)
(***************************************************************************)
RECURSIVE sorted_unique(_)
sorted_unique(S) ==
  IF S = {} THEN <<>>
  ELSE Value({<<m>> \o sorted_unique(S \ {m}) : m \in {Min(S)}})

prophet_df(rows) ==
  AsTuple([i \in 1..Len(rows) |-> [ds |-> rows[i].Date, y |-> rows[i].Close]])

\* Prophet.fit: refuses a history of fewer than 2 rows (y is never NaN here)
Prophet_fit(pdf) ==
  IF Len(pdf) < 2 THEN [error |-> Raised("ValueError", 389), model |-> <<>>]
  ELSE [error |-> NoError,
        model |-> <<[history |-> pdf,
                     history_dates |-> sorted_unique({pdf[i].ds : i \in 1..Len(pdf)})]>>]

\* pd.date_range(start, periods, freq='D')
pd_date_range(start, periods) == AsTuple([k \in 1..periods |-> start + k - 1])

\* the future dates started at the last date of the history
make_future_dataframe_from_last(m, periods) ==
  LET last_date == m.history_dates[Len(m.history_dates)]
  IN m.history_dates \o pd_date_range(last_date, periods)

\* Prophet.make_future_dataframe(periods), include_history=True
make_future_dataframe(m, periods) ==
  LET last_date == m.history_dates[Len(m.history_dates)]
      dates == SelectSeq(pd_date_range(last_date, periods + 1), LAMBDA d : d > last_date)
  IN m.history_dates \o SubSeq(dates, 1, Min({periods, Len(dates)}))

\* Prophet.predict: one row per date of the frame it is given
predict(m, future) == future

(***************************************************************************)
(* One execution of the script.                                            *)
(***************************************************************************)
Has(t, col) == col \in t.columns

Step(card, error, rerun) == [expanded_card |-> card, error |-> error, rerun |-> rerun]

\* the returns card's button opening the forecast view
preview_cards_wrong_card(t, pressed) ==
  IF ~Has(t, "Open") THEN Step("None", Raised("KeyError", 179), FALSE)
  ELSE IF ~Has(t, "High") THEN Step("None", Raised("KeyError", 180), FALSE)
  ELSE IF ~Has(t, "Low") THEN Step("None", Raised("KeyError", 181), FALSE)
  ELSE IF pressed = "price_btn" THEN Step("price", NoError, TRUE)
  ELSE IF ~Has(t, "Shares Traded") THEN Step("None", Raised("KeyError", 203), FALSE)
  ELSE IF pressed = "volume_btn" THEN Step("volume", NoError, TRUE)
  ELSE IF pressed = "returns_btn" THEN Step("forecast", NoError, TRUE)
  ELSE IF pressed = "forecast_btn" THEN Step("forecast", NoError, TRUE)
  ELSE Step("None", NoError, FALSE)

\* lines 170-257: the four preview cards and their buttons
preview_cards(t, pressed) ==
  IF ~Has(t, "Open") THEN Step("None", Raised("KeyError", 179), FALSE)
  ELSE IF ~Has(t, "High") THEN Step("None", Raised("KeyError", 180), FALSE)
  ELSE IF ~Has(t, "Low") THEN Step("None", Raised("KeyError", 181), FALSE)
  ELSE IF pressed = "price_btn" THEN Step("price", NoError, TRUE)
  ELSE IF ~Has(t, "Shares Traded") THEN Step("None", Raised("KeyError", 203), FALSE)
  ELSE IF pressed = "volume_btn" THEN Step("volume", NoError, TRUE)
  ELSE IF pressed = "returns_btn" THEN Step("returns", NoError, TRUE)
  ELSE IF pressed = "forecast_btn" THEN Step("forecast", NoError, TRUE)
  ELSE Step("None", NoError, FALSE)

price_view(t, rows) ==
  IF ~Has(t, "Open") THEN Raised("KeyError", 273)
  ELSE IF ~Has(t, "High") THEN Raised("KeyError", 274)
  ELSE IF ~Has(t, "Low") THEN Raised("KeyError", 275)
  ELSE IF ~Has(t, "Shares Traded") THEN Raised("KeyError", 287)
  ELSE NoError

volume_view(t, rows) ==
  IF ~Has(t, "Shares Traded") THEN Raised("KeyError", 314)
  ELSE IF ~Has(t, "Turnover") THEN Raised("KeyError", 321)
  ELSE NoError

\* total_return reads Close.iloc[-1] and Close.iloc[0]
returns_view(t, rows) ==
  IF Len(rows) = 0 THEN Raised("IndexError", 375) ELSE NoError

forecast_view(rows, h) ==
  Value({IF fit.error # NoError
         THEN [error |-> fit.error, model |-> <<>>, forecast |-> <<>>]
         ELSE [error |-> NoError, model |-> fit.model,
               forecast |-> predict(fit.model[1], make_future_dataframe(fit.model[1], h))] :
         fit \in {Prophet_fit(prophet_df(rows))}})

\* lines 94-433: the session's flag, then the preview cards or one view
page_body(base, card, h0, pressed) ==
  IF card = "None"
  THEN Value({[base EXCEPT !.expanded_card = p.expanded_card,
                           !.outcome = p.error, !.rerun = p.rerun] :
              p \in {preview_cards(base.df[1], pressed)}})
  ELSE IF pressed = "close"
  THEN [base EXCEPT !.expanded_card = "None", !.rerun = TRUE]
  ELSE IF card = "price"
  THEN [base EXCEPT !.expanded_card = card,
                    !.outcome = price_view(base.df[1], base.filtered_df)]
  ELSE IF card = "volume"
  THEN [base EXCEPT !.expanded_card = card,
                    !.outcome = volume_view(base.df[1], base.filtered_df)]
  ELSE IF card = "returns"
  THEN [base EXCEPT !.expanded_card = card,
                    !.outcome = returns_view(base.df[1], base.filtered_df)]
  ELSE Value({[base EXCEPT !.expanded_card = card, !.forecast_days = <<h>>,
                           !.outcome = f.error, !.model = f.model,
                           !.forecast = f.forecast] :
              h \in {IF h0 = <<>> THEN DefaultHorizon ELSE h0[1]},
              f \in {forecast_view(base.filtered_df,
                                   IF h0 = <<>> THEN DefaultHorizon ELSE h0[1])}})

\* lines 69-92: the date widget, start_date and end_date, the filter
sidebar(memo, t, dr) ==
  Value({[cache |-> memo, df |-> <<env.df>>, date_range |-> <<dr>>,
          start_date |-> <<start_date_of(dr)>>, end_date |-> <<end_date_of(dr)>>,
          filtered_df |-> env.filtered_df, expanded_card |-> "None",
          forecast_days |-> <<>>, outcome |-> NoError, model |-> <<>>,
          forecast |-> <<>>, rerun |-> FALSE] :
         env \in {loc_mask(t, start_date_of(dr), end_date_of(dr))}})

loaded_page(ld, card0, dr0, h0, pressed) ==
  IF ld.error # NoError
  THEN [cache |-> ld.memo, df |-> <<>>, date_range |-> <<>>, start_date |-> <<>>,
        end_date |-> <<>>, filtered_df |-> <<>>, expanded_card |-> card0,
        forecast_days |-> <<>>, outcome |-> ld.error, model |-> <<>>,
        forecast |-> <<>>, rerun |-> FALSE]
  ELSE Value({page_body(base, IF card0 = "unset" THEN "None" ELSE card0, h0, pressed) :
              base \in {sidebar(ld.memo, ld.table[1],
                                IF dr0 = <<>> THEN default_dates(ld.table[1]) ELSE dr0[1])}})

\* the script from line 48 on, given the st.cache_data entry, the session's
\* flag, the state of the two widgets and the button pressed (if any)
PageRun(c, memo, card0, dr0, h0, pressed) ==
  Value({loaded_page(ld, card0, dr0, h0, pressed) : ld \in {st_cache_data(memo, c)}})

\* an interaction: the run it triggers and, after st.rerun(), the next one
Interact(c, memo, card0, dr0, h0, pressed) ==
  Value({IF r.rerun
         THEN PageRun(c, r.cache, r.expanded_card, r.date_range, r.forecast_days, "")
         ELSE r :
         r \in {PageRun(c, memo, card0, dr0, h0, pressed)}})

(***************************************************************************)
(* The input files.                                                        *)
(***************************************************************************)
CloseAt(seed, d) == 1 + ((seed * d * d + d) % CloseMod)

Bars(days, seed) ==
  AsTuple([i \in 1..Len(days) |-> [Date |-> days[i], Close |-> CloseAt(seed, days[i])]])

Reverse(q) == AsTuple([i \in 1..Len(q) |-> q[Len(q) + 1 - i]])

Labels(names, pad) == {[name |-> n, pad |-> pad] : n \in names}

\* the i-th trading day: five in a week
TradingDay(i) == i + 2 * ((i - 1) \div 5)

\* a session's file: all seven columns, bars on some of the days 1..MaxDate
SessionCsvs ==
  {[columns |-> Labels(RequiredColumns, 1), rows |-> Bars(sorted_unique(D), 1)] :
     D \in SUBSET (1..MaxDate) \ {{}}}

\* lengths around the three windows
LoadLengths == {1} \cup UNION {{w - 1, w, w + 1} : w \in Windows}

ColumnSets == {RequiredColumns} \cup {RequiredColumns \ {x} : x \in RequiredColumns}

LoadRows(n, seed) == Bars(AsTuple([i \in 1..n |-> TradingDay(i)]), seed)

\* the columns and the length of a file: a column is missing from short files
LoadShapes ==
  {sh \in ColumnSets \X LoadLengths : sh[1] = RequiredColumns \/ sh[2] <= MA20Window + 1}

\* a file as load_data may meet it: long or short, padded labels or not, the
\* rows ascending or descending
LoadCsvs ==
  UNION {{[columns |-> Labels(sh[1], pad), rows |-> LoadRows(sh[2], seed)],
          [columns |-> Labels(sh[1], pad), rows |-> Reverse(LoadRows(sh[2], seed))]} :
           sh \in LoadShapes, seed \in 1..MaxSeed, pad \in 0..1}

(***************************************************************************)
(* The session.                                                            *)
(***************************************************************************)
Bind(r, ev) ==
  /\ cache = r.cache
  /\ df = r.df
  /\ date_range = r.date_range
  /\ start_date = r.start_date
  /\ end_date = r.end_date
  /\ filtered_df = r.filtered_df
  /\ expanded_card = r.expanded_card
  /\ forecast_days = r.forecast_days
  /\ outcome = r.outcome
  /\ model = r.model
  /\ forecast = r.forecast
  /\ event = ev

Become(r, ev) ==
  /\ csv' = csv
  /\ cache' = r.cache
  /\ df' = r.df
  /\ date_range' = r.date_range
  /\ start_date' = r.start_date
  /\ end_date' = r.end_date
  /\ filtered_df' = r.filtered_df
  /\ expanded_card' = r.expanded_card
  /\ forecast_days' = r.forecast_days
  /\ outcome' = r.outcome
  /\ model' = r.model
  /\ forecast' = r.forecast
  /\ event' = ev

\* the session once the page has been opened on a well-formed file
Init ==
  /\ csv \in SessionCsvs
  /\ \E r \in {Interact(csv, <<>>, "unset", <<>>, <<>>, "")} : Bind(r, "open")

\* before the page is opened, on any file
InitLoad ==
  /\ csv \in LoadCsvs
  /\ cache = <<>>
  /\ df = <<>>
  /\ date_range = <<>>
  /\ start_date = <<>>
  /\ end_date = <<>>
  /\ filtered_df = <<>>
  /\ expanded_card = "unset"
  /\ forecast_days = <<>>
  /\ outcome = NoError
  /\ model = <<>>
  /\ forecast = <<>>
  /\ event = "none"

\* the last run reached the given line of the script
Reached(line) == event # "none" /\ (outcome = NoError \/ outcome.line > line)

ButtonLine(card) ==
  CASE card = "price" -> 193
    [] card = "volume" -> 213
    [] card = "returns" -> 234
    [] card = "forecast" -> 254

ButtonKey(card) ==
  CASE card = "price" -> "price_btn"
    [] card = "volume" -> "volume_btn"
    [] card = "returns" -> "returns_btn"
    [] card = "forecast" -> "forecast_btn"

\* the first run of the script
OpenPage ==
  /\ event = "none"
  /\ \E r \in {Interact(csv, cache, expanded_card, date_range, forecast_days, "")} : Become(r, "open")

\* a rerun with no widget touched
Rerun ==
  /\ event # "none"
  /\ \E r \in {Interact(csv, cache, expanded_card, date_range, forecast_days, "")} : Become(r, event)

\* the user picks dates in the sidebar
SelectDates ==
  /\ Reached(74)
  /\ \E v \in WidgetValues(df[1]) :
       \E r \in {Interact(csv, cache, expanded_card, <<v>>, forecast_days, "")} : Become(r, "date_input")

\* "View Full Analysis" on one of the preview cards
ClickCard ==
  /\ expanded_card = "None"
  /\ \E card \in Cards :
       /\ Reached(ButtonLine(card))
       /\ \E r \in {Interact(csv, cache, expanded_card, date_range, forecast_days,
                          ButtonKey(card))} : Become(r, ButtonKey(card))

\* "Close" on a full screen view
ClickClose ==
  /\ expanded_card \in Cards
  /\ Reached(261)
  /\ \E r \in {Interact(csv, cache, expanded_card, date_range, forecast_days, "close")} : Become(r, "close")

\* the forecast view's slider
SlideHorizon ==
  /\ expanded_card = "forecast"
  /\ Reached(380)
  /\ \E h \in MinHorizon..MaxHorizon :
       \E r \in {Interact(csv, cache, expanded_card, date_range, <<h>>, "")} : Become(r, "slider")

Next == Rerun \/ SelectDates \/ ClickCard \/ ClickClose \/ SlideHorizon

Spec == Init /\ [][Next]_vars

NextLoad == OpenPage \/ Rerun

SpecLoad == InitLoad /\ [][NextLoad]_vars

(***************************************************************************)
(* Properties.                                                             *)
(***************************************************************************)
Loaded == df # <<>>

Series == df[1].rows

InRange(r) == start_date[1] <= r.Date /\ r.Date <= end_date[1]

Ascending(dates) == \A i \in 1..Len(dates) - 1 : dates[i] < dates[i + 1]

\* C1: for a range with start <= end the filter returns exactly the bars of
\* the series dated within [start, end], both ends included, as one
\* contiguous run of the series in its ascending order; the range from the
\* first to the last date of the series returns the whole series.
C1_RangeFilter ==
  (Loaded /\ start_date[1] <= end_date[1]) =>
     /\ \E lo \in 1..Len(Series) + 1 : \E hi \in 0..Len(Series) :
          filtered_df = SubSeq(Series, lo, hi)
     /\ \A i \in 1..Len(Series) :
          InRange(Series[i]) <=> \E j \in 1..Len(filtered_df) : filtered_df[j] = Series[i]
     /\ Ascending(Column(filtered_df, "Date"))
     /\ (/\ start_date[1] = Min(DatesOf(Series))
         /\ end_date[1] = Max(DatesOf(Series))) => filtered_df = Series

\* a range picked in the sidebar that keeps the last bars of the series only
C1_Witness ==
  /\ Loaded
  /\ event = "date_input"
  /\ start_date[1] < end_date[1]
  /\ Len(filtered_df) = 2
  /\ Len(Series) = 3
  /\ filtered_df[2] = Series[3]

\* C2: a range given with its start after its end selects the same bars as
\* the range with the two dates swapped.
C2_ReversedRangeSwapped ==
  (Loaded /\ start_date[1] > end_date[1]) =>
     filtered_df = loc_mask(df[1], end_date[1], start_date[1]).filtered_df

\* C3: a forecast asked on fewer than 2 bars ends in the reported outcome
\* InsufficientDataError, with no forecast table.
C3_InsufficientDataReported ==
  (Loaded /\ expanded_card = "forecast" /\ Len(filtered_df) < 2) =>
     outcome.exc = "InsufficientDataError" /\ forecast = <<>>

\* C4: on n >= 2 bars and a horizon h the forecast table has n + h rows with
\* strictly ascending dates: the n dates of the input, then the h calendar
\* days that follow the last of them.
C4_ForecastDates ==
  (Loaded /\ expanded_card = "forecast" /\ Len(filtered_df) >= 2) =>
     LET n == Len(filtered_df)
         h == forecast_days[1]
     IN /\ h \in MinHorizon..MaxHorizon
        /\ outcome = NoError
        /\ Len(forecast) = n + h
        /\ Ascending(forecast)
        /\ \A i \in 1..n : forecast[i] = filtered_df[i].Date
        /\ \A k \in 1..h : forecast[n + k] = filtered_df[n].Date + k

\* the longest horizon, on bars with a day without trading between them
C4_Witness ==
  /\ expanded_card = "forecast"
  /\ forecast_days = <<MaxHorizon>>
  /\ Len(filtered_df) = 2
  /\ filtered_df[2].Date = filtered_df[1].Date + 2
  /\ Len(forecast) = MaxHorizon + 2

MAOf(r, w) ==
  CASE w = MA20Window -> r.MA20
    [] w = MA50Window -> r.MA50
    [] w = MA200Window -> r.MA200

\* C5: in the loaded table, sorted by date, the moving average of window w
\* at bar i (counted from 1) is defined exactly when i >= w, is then the
\* mean of the w closes ending at bar i, and is NaN, not zero, before.
C5_MovingAverages ==
  cache # <<>> =>
     LET rows == cache[1].rows
         close == Column(rows, "Close")
     IN /\ Ascending(Column(rows, "Date"))
        /\ \A w \in Windows : \A i \in 1..Len(rows) :
             LET ma == MAOf(rows[i], w)
             IN /\ ma.nan <=> i < w
                /\ i < w => ma = NaN
                /\ i >= w => ma.den > 0 /\ ma.num * w = ma.den * Sum(close, i - w + 1, i)

\* a file of 200 bars or more, latest first: the 200-day average of the last bar
C5_Witness ==
  /\ cache # <<>>
  /\ Len(csv.rows) >= MA200Window
  /\ csv.rows[1].Date > csv.rows[2].Date
  /\ ~cache[1].rows[Len(csv.rows)].MA200.nan
  /\ ~cache[1].rows[MA20Window].MA20.nan
  /\ cache[1].rows[MA20Window].MA50.nan

\* C6: with a required column missing the load fails, at load time.
C6_MissingColumnFailsLoad ==
  (event # "none" /\ strip(csv.columns) # RequiredColumns) =>
     cache = <<>> /\ outcome # NoError /\ outcome.line <= 48

\* C7: whatever the user has done, the cached table is the table load_data
\* made of the file, and it is the table the last run has read.
C7_CacheIntact ==
  /\ cache = load_data(csv).table
  /\ df = cache

\* a failed request on a narrowed range
C7_Witness ==
  /\ outcome # NoError
  /\ event = "date_input"
  /\ Len(filtered_df) < Len(cache[1].rows)

\* C8: on a range without bars the filter gives the empty sequence and the
\* run ends without an uncaught exception: stated here for the cards, the
\* price view, the volume view and the returns view (the forecast view on
\* an empty range is the case of C3).
C8_EmptyRangeNoCrash ==
  (Loaded /\ expanded_card # "forecast" /\ \A i \in 1..Len(Series) : ~InRange(Series[i])) =>
     filtered_df = <<>> /\ outcome = NoError

\* C9: a single date d from the widget, bare or alone in a tuple, gives
\* start = end = d; two dates give start the first and end the last.
C9_StartEnd ==
  Loaded =>
     LET v == date_range[1]
     IN /\ Len(v.dates) = 1 => start_date = <<v.dates[1]>> /\ end_date = <<v.dates[1]>>
        /\ Len(v.dates) = 2 => start_date = <<v.dates[1]>> /\ end_date = <<v.dates[2]>>
        /\ \A i \in 1..Len(Series) :
             (\E j \in 1..Len(filtered_df) : filtered_df[j] = Series[i])
               <=> (start_date[1] <= Series[i].Date /\ Series[i].Date <= end_date[1])

\* a single date in a tuple, on a trading day, other bars left out
C9_Witness ==
  /\ Loaded
  /\ event = "date_input"
  /\ date_range[1].kind = "tuple"
  /\ Len(date_range[1].dates) = 1
  /\ Len(filtered_df) = 1
  /\ Len(Series) > 1

CardChange ==
  expanded_card' # expanded_card =>
    \/ expanded_card = "None" /\ expanded_card' \in Cards /\ event' = ButtonKey(expanded_card')
    \/ expanded_card \in Cards /\ expanded_card' = "None" /\ event' = "close"

FitOnlyInForecast ==
  /\ expanded_card \in {"None"} \cup Cards
  /\ model # <<>> => expanded_card = "forecast" /\ model[1].history = prophet_df(filtered_df)
  /\ (expanded_card = "forecast" /\ Len(filtered_df) >= 2) => model # <<>>

\* C10: the flag starts as None and is always None or one of the four cards;
\* it leaves None only for the card whose button was pressed and leaves a
\* card only for None, by Close; a model is fitted only in a run of the
\* forecast view, on the bars of that run.
C10_CardFlag ==
  /\ expanded_card = "None"
  /\ []FitOnlyInForecast
  /\ [][CardChange]_vars

\* the forecast view, opened by its button, with its model
C10_Witness ==
  /\ expanded_card = "forecast"
  /\ event = "forecast_btn"
  /\ model # <<>>

====
